---- MODULE Spec2Model ----
(***************************************************************************)
(* x86_64 relocation relaxation of the wild linker.                        *)
(*                                                                         *)
(*   Decider   Relaxation::new         libwild/src/x86_64.rs               *)
(*   Rewriter  RelaxationKind::apply   linker-utils/src/x86_64.rs          *)
(*   PLT       X86_64::write_plt_entry libwild/src/x86_64.rs               *)
(*                                                                         *)
(* Conventions.  A section is a sequence of bytes 0..255; Rust index i is  *)
(* element i+1.  An Option<u8> that is None is the value NoByte, an        *)
(* Option<&[u8]> that is None is NoSlice.  A u64 address of the PLT        *)
(* emitter is a sequence of eight bytes, least significant first, so that  *)
(* 64-bit wrap-around is computed and not assumed.  A Rust panic is an     *)
(* outcome of its own ("Panic"): an out-of-range index panics in every     *)
(* build, an overflowing + or - on usize/u64 panics in a build with        *)
(* overflow checks (debug) and wraps in one without (release); the         *)
(* variable overflow_checks is the build, handed on as `checks`.           *)
(***************************************************************************)
EXTENDS Integers, Sequences, FiniteSets, TLC

VARIABLES
    overflow_checks,    \* the build: does an overflowing + or - panic
    pc,                 \* "idle" | "decided" | "applied" | "plt_done"
    relocation_kind,    \* the Decider's inputs
    section_bytes,
    offset_in_section,
    value_flags,
    output_kind,
    section_flags,
    relaxation,         \* what Relaxation::new returned (or that it panicked)
    applied_kind,       \* the RelaxationKind apply was called with
    out,                \* apply's view of the section, offset, addend, modifier
    offset_out,
    addend_in,
    addend,
    modifier_in,
    next_modifier,
    apply_status,       \* "none" | "ok" | "panic"
    got_address,        \* write_plt_entry's inputs and outputs
    plt_address,
    plt_entry,
    plt_status          \* "none" | "Ok" | "Err" | "Panic"

vars == << overflow_checks, pc, relocation_kind, section_bytes, offset_in_section, value_flags,
           output_kind, section_flags, relaxation, applied_kind, out,
           offset_out, addend_in, addend, modifier_in, next_modifier,
           apply_status, got_address, plt_address, plt_entry, plt_status >>

deciderVars == << relocation_kind, section_bytes, offset_in_section,
                  value_flags, output_kind, section_flags, relaxation >>

rewriterVars == << applied_kind, out, offset_out, addend_in, addend,
                   modifier_in, next_modifier, apply_status >>

pltVars == << got_address, plt_address, plt_entry, plt_status >>

(***************************************************************************)
(* Bounds of the model.                                                    *)
(***************************************************************************)
\* offset_in_section ranges over 0..MaxOffset
MaxOffset == 6
\* a section is one of the instruction templates with up to MaxCut bytes
\* missing at its end
MaxCut == 2

(***************************************************************************)
(* ELF relocation types (object::elf) the Decider names.                   *)
(***************************************************************************)
R_X86_64_NONE == 0
R_X86_64_64 == 1
R_X86_64_PC32 == 2
R_X86_64_PLT32 == 4
R_X86_64_GOTPCREL == 9
R_X86_64_32 == 10
R_X86_64_TLSGD == 19
R_X86_64_TLSLD == 20
R_X86_64_GOTTPOFF == 22
R_X86_64_TPOFF32 == 23
R_X86_64_GOTOFF64 == 25
R_X86_64_PLTOFF64 == 31
R_X86_64_GOTPCRELX == 41
R_X86_64_REX_GOTPCRELX == 42

\* The relocation kinds handed to the Decider: every kind it has an arm for,
\* and one (R_X86_64_64) that only the default arm matches.
RelocationKinds ==
    { R_X86_64_64, R_X86_64_PC32, R_X86_64_PLT32, R_X86_64_GOTPCREL,
      R_X86_64_TLSGD, R_X86_64_TLSLD, R_X86_64_GOTTPOFF, R_X86_64_PLTOFF64,
      R_X86_64_GOTPCRELX, R_X86_64_REX_GOTPCRELX }

ValueFlags == { "ADDRESS", "ABSOLUTE", "DYNAMIC", "CAN_BYPASS_GOT", "IFUNC" }

\* sh_flags of the section holding the relocation
SectionFlagSets == { {"ALLOC"}, {"ALLOC", "EXECINSTR"} }

\* OutputKind (crate::args), an executable with its RelocationModel or a
\* shared object
OutputKinds ==
    { <<"StaticExecutable", "NonRelocatable">>,
      <<"StaticExecutable", "Relocatable">>,
      <<"DynamicExecutable", "NonRelocatable">>,
      <<"DynamicExecutable", "Relocatable">>,
      <<"SharedObject">> }

is_relocatable(o) ==
    IF o[1] = "SharedObject" THEN TRUE ELSE o[2] = "Relocatable"

is_executable(o) == o[1] # "SharedObject"

RelaxationKinds ==
    { "MovIndirectToLea", "MovIndirectToAbsolute", "RexMovIndirectToAbsolute",
      "RexSubIndirectToAbsolute", "RexCmpIndirectToAbsolute",
      "CallIndirectToRelative", "NoOp", "TlsGdToLocalExec",
      "TlsGdToLocalExecLarge", "TlsLdToLocalExec", "TlsGdToInitialExec" }

RelocationModifiers == { "Normal", "SkipNextRelocation" }

(***************************************************************************)
(* Slices and usize arithmetic.                                            *)
(***************************************************************************)
NoByte == 0 - 1
NoSlice == << 0 - 1 >>

\* Stands for 2^64, the modulus of usize: a wrapped `offset - k` is
\* UsizeModulus + offset - k, far above every section length of the model.
UsizeModulus == 2 ^ 30

\* a.wrapping_sub(k): what `a - k` is in a build without overflow checks
WrapSub(a, k) == IF a >= k THEN a - k ELSE UsizeModulus + a - k

\* slice.get(i)
Get(bytes, i) == IF i >= 0 /\ i < Len(bytes) THEN bytes[i + 1] ELSE NoByte

\* slice.get(a..b): None when a > b or b > len
GetRange(bytes, a, b) ==
    IF a <= b /\ b <= Len(bytes) THEN SubSeq(bytes, a + 1, b) ELSE NoSlice

\* dst[a..a+len(src)].copy_from_slice(src), the range known to be in bounds
CopyFromSlice(bytes, a, src) ==
    [i \in 1..Len(bytes) |->
        IF i > a /\ i <= a + Len(src) THEN src[i - a] ELSE bytes[i]]

(***************************************************************************)
(* The Decider: Relaxation::new.                                           *)
(***************************************************************************)
None == [tag |-> "None"]
Panic(why) == [tag |-> "Panic", why |-> why]

\* create(kind, new_r_type): relocation_from_raw(new_r_type) is taken to know
\* every type the Decider relaxes to, so the unwrap does not fail.
create(kind, new_r_type) ==
    [tag |-> "Some", kind |-> kind, r_type |-> new_r_type]

\* TlsGdForm::identify: "Regular", "Large", "None", or "Panic" where
\* `offset - 4` (or `offset - 3`) overflows in a build that checks.
TlsGdForm_identify(bytes, offset, checks) ==
    IF checks /\ offset < 4 THEN "Panic"
    ELSE IF /\ GetRange(bytes, WrapSub(offset, 4), offset) = <<102, 72, 141, 61>>
            /\ GetRange(bytes, offset + 4, offset + 8) = <<102, 102, 72, 232>>
    THEN "Regular"
    ELSE IF checks /\ offset < 3 THEN "Panic"
    ELSE IF /\ GetRange(bytes, WrapSub(offset, 3), offset) = <<72, 141, 61>>
            /\ GetRange(bytes, offset + 4, offset + 6) = <<72, 184>>
            /\ GetRange(bytes, offset + 14, offset + 19) = <<72, 1, 216, 255, 208>>
    THEN "Large"
    ELSE "None"

\* the arm for R_X86_64_REX_GOTPCRELX
NewRexGotPcRelX(bytes, offset, is_absolute, is_absolute_address, can_bypass_got) ==
    IF offset < 3 THEN None
    ELSE IF offset - 2 >= Len(bytes) THEN Panic("index out of bounds")
    ELSE
      LET b1 == bytes[offset - 2 + 1]
          rex == bytes[offset - 3 + 1]
      IN IF rex # 72 /\ rex # 76 THEN None
         ELSE IF is_absolute \/ is_absolute_address
              THEN CASE b1 = 139 -> create("RexMovIndirectToAbsolute", R_X86_64_32)
                     [] b1 = 43 -> create("RexSubIndirectToAbsolute", R_X86_64_32)
                     [] b1 = 59 -> create("RexCmpIndirectToAbsolute", R_X86_64_32)
                     [] OTHER -> None
         ELSE IF can_bypass_got
              THEN IF b1 = 139 THEN create("MovIndirectToLea", R_X86_64_PC32)
                   ELSE None
         ELSE None

\* the second half of the arm for R_X86_64_GOTPCRELX
NewGotPcRelXCall(bytes, offset, can_bypass_got, checks) ==
    IF can_bypass_got
    THEN IF checks /\ offset < 2 THEN Panic("attempt to subtract with overflow")
         ELSE LET s == GetRange(bytes, WrapSub(offset, 2), offset)
              IN IF s = NoSlice THEN None
                 ELSE IF s = <<255, 21>>
                      THEN create("CallIndirectToRelative", R_X86_64_PC32)
                      ELSE None
    ELSE None

\* the arm for R_X86_64_GOTPCRELX
NewGotPcRelX(bytes, offset, is_absolute, is_absolute_address, can_bypass_got, checks) ==
    IF is_absolute \/ is_absolute_address
    THEN IF checks /\ offset < 2 THEN Panic("attempt to subtract with overflow")
         ELSE LET b == Get(bytes, WrapSub(offset, 2))
              IN IF b = NoByte THEN None
                 ELSE IF b = 139
                      THEN create("MovIndirectToAbsolute", R_X86_64_32)
                      ELSE NewGotPcRelXCall(bytes, offset, can_bypass_got, checks)
    ELSE NewGotPcRelXCall(bytes, offset, can_bypass_got, checks)

\* the arm for R_X86_64_GOTPCREL (its guard holds)
NewGotPcRel(bytes, offset) ==
    LET b == Get(bytes, offset - 2)
    IN IF b = NoByte THEN None
       ELSE IF b = 139 THEN create("MovIndirectToLea", R_X86_64_PC32)
       ELSE None

\* the arm for R_X86_64_GOTTPOFF (its guard holds)
NewGotTpOff(bytes, offset, checks) ==
    IF checks /\ offset < 3 THEN Panic("attempt to subtract with overflow")
    ELSE LET s == GetRange(bytes, WrapSub(offset, 3), WrapSub(offset, 1))
         IN IF s = NoSlice THEN None
            ELSE IF s[1] \in {72, 76} /\ s[2] = 139
                 THEN create("RexMovIndirectToAbsolute", R_X86_64_TPOFF32)
                 ELSE None

\* the two arms for R_X86_64_TLSGD (is_executable holds)
NewTlsGd(bytes, offset, can_bypass_got, checks) ==
    LET form == TlsGdForm_identify(bytes, offset, checks)
    IN IF form = "Panic" THEN Panic("attempt to subtract with overflow")
       ELSE IF form = "None" THEN None
       ELSE IF can_bypass_got
            THEN IF form = "Regular"
                 THEN create("TlsGdToLocalExec", R_X86_64_TPOFF32)
                 ELSE create("TlsGdToLocalExecLarge", R_X86_64_TPOFF32)
       ELSE IF form = "Regular"
            THEN create("TlsGdToInitialExec", R_X86_64_GOTTPOFF)
            ELSE None

\* the arm for R_X86_64_TLSLD (is_executable holds)
NewTlsLd(bytes, offset, checks) ==
    IF checks /\ offset < 3 THEN Panic("attempt to subtract with overflow")
    ELSE LET s == GetRange(bytes, WrapSub(offset, 3), offset)
         IN IF s = NoSlice THEN None
            ELSE IF s = <<72, 141, 61>>
                 THEN create("TlsLdToLocalExec", R_X86_64_NONE)
                 ELSE None

\* the predicates Relaxation::new computes first
is_absolute(vf) == "ABSOLUTE" \in vf /\ "DYNAMIC" \notin vf

\* mutant: the output kind is not asked
is_absolute_address_AnyOutput(vf, ok) == "ADDRESS" \in vf

is_absolute_address(vf, ok) == "ADDRESS" \in vf /\ ~is_relocatable(ok)

can_bypass_got(vf) == "CAN_BYPASS_GOT" \in vf

\* the IFUNC gate
NewIfunc(rk) ==
    IF rk = R_X86_64_PC32 THEN create("NoOp", R_X86_64_PLT32) ELSE None

\* the match on relocation_kind
NewDispatch(rk, bytes, offset, vf, ok, checks) ==
    CASE rk = R_X86_64_REX_GOTPCRELX ->
           NewRexGotPcRelX(bytes, offset, is_absolute(vf),
                           is_absolute_address(vf, ok), can_bypass_got(vf))
      [] rk = R_X86_64_GOTPCRELX ->
           NewGotPcRelX(bytes, offset, is_absolute(vf),
                        is_absolute_address(vf, ok), can_bypass_got(vf), checks)
      [] rk = R_X86_64_GOTPCREL /\ can_bypass_got(vf) /\ offset >= 2 ->
           NewGotPcRel(bytes, offset)
      [] rk = R_X86_64_GOTTPOFF /\ can_bypass_got(vf) ->
           NewGotTpOff(bytes, offset, checks)
      [] rk = R_X86_64_PLT32 /\ can_bypass_got(vf) ->
           create("NoOp", R_X86_64_PC32)
      [] rk = R_X86_64_PLTOFF64 /\ can_bypass_got(vf) ->
           create("NoOp", R_X86_64_GOTOFF64)
      [] rk = R_X86_64_TLSGD /\ is_executable(ok) ->
           NewTlsGd(bytes, offset, can_bypass_got(vf), checks)
      [] rk = R_X86_64_TLSLD /\ is_executable(ok) ->
           NewTlsLd(bytes, offset, checks)
      [] OTHER -> None

\* mutant: the executable-section gate is missing
NewExec_NoGate(rk, bytes, offset, vf, ok, sf, checks) ==
    NewDispatch(rk, bytes, offset, vf, ok, checks)

\* the executable-section gate
NewExec(rk, bytes, offset, vf, ok, sf, checks) ==
    IF "EXECINSTR" \notin sf THEN None
    ELSE NewDispatch(rk, bytes, offset, vf, ok, checks)

\* mutant: the executable-section gate comes before the IFUNC gate
Relaxation_new_ExecGateFirst(rk, bytes, offset, vf, ok, sf, checks) ==
    IF "EXECINSTR" \notin sf THEN None
    ELSE IF "IFUNC" \in vf THEN NewIfunc(rk)
    ELSE NewDispatch(rk, bytes, offset, vf, ok, checks)

\* Relaxation::new
Relaxation_new(rk, bytes, offset, vf, ok, sf, checks) ==
    IF "IFUNC" \in vf THEN NewIfunc(rk)
    ELSE NewExec(rk, bytes, offset, vf, ok, sf, checks)

(***************************************************************************)
(* The Rewriter: RelaxationKind::apply.                                    *)
(* A result is the section, offset, addend and modifier as apply leaves    *)
(* them, with status "ok", or as they are when it panics, with "panic".    *)
(***************************************************************************)
ApplyResult(status, bytes, offset, a, m) ==
    [status |-> status, bytes |-> bytes, offset |-> offset, addend |-> a,
     next_modifier |-> m]

\* (rex & !4) | ((rex & 4) >> 2)
RexRToB(rex) ==
    LET r == (rex \div 4) % 2
    IN (rex - 4 * r) + (IF r = 1 /\ rex % 2 = 0 THEN 1 ELSE 0)

\* (mod_rm >> 3) & 0x7 | bits, for bits one of 0xc0, 0xe8, 0xf8
ModRmRegToRm(mod_rm, bits) == ((mod_rm \div 8) % 8) + bits

\* section_bytes[i] = v for a usize i; i is past the end when offset - k wrapped
IndexOk(bytes, offset, k) == offset >= k /\ offset - k < Len(bytes)

SetByte(bytes, i, v) == [bytes EXCEPT ![i + 1] = v]

ApplyMovIndirectToLea(bytes, offset, a, m) ==
    IF ~IndexOk(bytes, offset, 2) THEN ApplyResult("panic", bytes, offset, a, m)
    ELSE ApplyResult("ok", SetByte(bytes, offset - 2, 141), offset, a, m)

ApplyMovIndirectToAbsolute(bytes, offset, a, m) ==
    IF ~IndexOk(bytes, offset, 2) THEN ApplyResult("panic", bytes, offset, a, m)
    ELSE LET b1 == SetByte(bytes, offset - 2, 199)
         IN IF ~IndexOk(b1, offset, 1) THEN ApplyResult("panic", b1, offset, a, m)
            ELSE ApplyResult("ok",
                     SetByte(b1, offset - 1, ModRmRegToRm(b1[offset], 192)),
                     offset, 0, m)

\* the three Rex*IndirectToAbsolute arms: they differ in opcode and ModR/M bits
ApplyRexIndirectToAbsolute(bytes, offset, a, m, opcode, bits) ==
    IF ~IndexOk(bytes, offset, 3) THEN ApplyResult("panic", bytes, offset, a, m)
    ELSE LET rex == bytes[offset - 3 + 1]
             b1 == SetByte(bytes, offset - 3, RexRToB(rex))
         IN IF ~IndexOk(b1, offset, 2) THEN ApplyResult("panic", b1, offset, a, m)
            ELSE LET b2 == SetByte(b1, offset - 2, opcode)
                 IN IF ~IndexOk(b2, offset, 1)
                    THEN ApplyResult("panic", b2, offset, a, m)
                    ELSE ApplyResult("ok",
                             SetByte(b2, offset - 1, ModRmRegToRm(b2[offset], bits)),
                             offset, 0, m)

\* section_bytes[offset - back..offset + fwd] exists
RangeOk(bytes, offset, back, fwd) == offset >= back /\ offset + fwd <= Len(bytes)

ApplyCallIndirectToRelative(bytes, offset, a, m) ==
    IF ~RangeOk(bytes, offset, 2, 0) THEN ApplyResult("panic", bytes, offset, a, m)
    ELSE ApplyResult("ok", CopyFromSlice(bytes, offset - 2, <<103, 232>>), offset, a, m)

\* mutant: the addend is left as it was
ApplyTlsGdToLocalExec_KeepAddend(bytes, offset, a, m) ==
    IF ~RangeOk(bytes, offset, 4, 8) THEN ApplyResult("panic", bytes, offset, a, m)
    ELSE ApplyResult("ok",
             CopyFromSlice(bytes, offset - 4,
                 <<100, 72, 139, 4, 37, 0, 0, 0, 0, 72, 141, 128>>),
             offset + 8, a, "SkipNextRelocation")

ApplyTlsGdToLocalExec(bytes, offset, a, m) ==
    IF ~RangeOk(bytes, offset, 4, 8) THEN ApplyResult("panic", bytes, offset, a, m)
    ELSE ApplyResult("ok",
             CopyFromSlice(bytes, offset - 4,
                 <<100, 72, 139, 4, 37, 0, 0, 0, 0, 72, 141, 128>>),
             offset + 8, 0, "SkipNextRelocation")

ApplyTlsGdToLocalExecLarge(bytes, offset, a, m) ==
    IF ~RangeOk(bytes, offset, 3, 19) THEN ApplyResult("panic", bytes, offset, a, m)
    ELSE ApplyResult("ok",
             CopyFromSlice(bytes, offset - 3,
                 <<100, 72, 139, 4, 37, 0, 0, 0, 0, 72, 141, 128, 0, 0, 0, 0,
                   102, 15, 31, 68, 0, 0>>),
             offset + 9, 0, "SkipNextRelocation")

\* addend = -12_i64 as u64: the addend is kept as the i64 it is the bits of
ApplyTlsGdToInitialExec(bytes, offset, a, m) ==
    IF ~RangeOk(bytes, offset, 4, 8) THEN ApplyResult("panic", bytes, offset, a, m)
    ELSE ApplyResult("ok",
             CopyFromSlice(bytes, offset - 4,
                 <<100, 72, 139, 4, 37, 0, 0, 0, 0, 72, 3, 5>>),
             offset + 8, 0 - 12, "SkipNextRelocation")

\* mutant: the short form does not ask for the next relocation to be skipped
ApplyTlsLdToLocalExec_NoSkip(bytes, offset, a, m) ==
    IF GetRange(bytes, offset + 4, offset + 6) = <<72, 184>>
    THEN IF ~RangeOk(bytes, offset, 3, 19)
         THEN ApplyResult("panic", bytes, offset, a, m)
         ELSE ApplyResult("ok",
                  CopyFromSlice(bytes, offset - 3,
                      <<102, 102, 102, 102, 46, 15, 31, 132, 0, 0, 0, 0, 0,
                        100, 72, 139, 4, 37, 0, 0, 0, 0>>),
                  offset + 15, a, "SkipNextRelocation")
    ELSE IF ~RangeOk(bytes, offset, 3, 9)
         THEN ApplyResult("panic", bytes, offset, a, m)
         ELSE ApplyResult("ok",
                  CopyFromSlice(bytes, offset - 3,
                      <<102, 102, 102, 100, 72, 139, 4, 37, 0, 0, 0, 0>>),
                  offset + 5, a, m)

ApplyTlsLdToLocalExec(bytes, offset, a, m) ==
    IF GetRange(bytes, offset + 4, offset + 6) = <<72, 184>>
    THEN IF ~RangeOk(bytes, offset, 3, 19)
         THEN ApplyResult("panic", bytes, offset, a, m)
         ELSE ApplyResult("ok",
                  CopyFromSlice(bytes, offset - 3,
                      <<102, 102, 102, 102, 46, 15, 31, 132, 0, 0, 0, 0, 0,
                        100, 72, 139, 4, 37, 0, 0, 0, 0>>),
                  offset + 15, a, "SkipNextRelocation")
    ELSE IF ~RangeOk(bytes, offset, 3, 9)
         THEN ApplyResult("panic", bytes, offset, a, m)
         ELSE ApplyResult("ok",
                  CopyFromSlice(bytes, offset - 3,
                      <<102, 102, 102, 100, 72, 139, 4, 37, 0, 0, 0, 0>>),
                  offset + 5, a, "SkipNextRelocation")

\* RelaxationKind::apply
RelaxationKind_apply(kind, bytes, offset, a, m) ==
    CASE kind = "MovIndirectToLea" -> ApplyMovIndirectToLea(bytes, offset, a, m)
      [] kind = "MovIndirectToAbsolute" ->
            ApplyMovIndirectToAbsolute(bytes, offset, a, m)
      [] kind = "RexMovIndirectToAbsolute" ->
            ApplyRexIndirectToAbsolute(bytes, offset, a, m, 199, 192)
      [] kind = "RexSubIndirectToAbsolute" ->
            ApplyRexIndirectToAbsolute(bytes, offset, a, m, 129, 232)
      [] kind = "RexCmpIndirectToAbsolute" ->
            ApplyRexIndirectToAbsolute(bytes, offset, a, m, 129, 248)
      [] kind = "CallIndirectToRelative" ->
            ApplyCallIndirectToRelative(bytes, offset, a, m)
      [] kind = "TlsGdToLocalExec" -> ApplyTlsGdToLocalExec(bytes, offset, a, m)
      [] kind = "TlsGdToLocalExecLarge" ->
            ApplyTlsGdToLocalExecLarge(bytes, offset, a, m)
      [] kind = "TlsGdToInitialExec" ->
            ApplyTlsGdToInitialExec(bytes, offset, a, m)
      [] kind = "TlsLdToLocalExec" -> ApplyTlsLdToLocalExec(bytes, offset, a, m)
      [] kind = "NoOp" -> ApplyResult("ok", bytes, offset, a, m)

(***************************************************************************)
(* The PLT emitter: X86_64::write_plt_entry.                               *)
(* A u64 is eight bytes, least significant first.                          *)
(***************************************************************************)
PLT_ENTRY_TEMPLATE ==
    << 243, 15, 30, 250,
       242, 255, 37, 0, 0, 0, 0,
       15, 31, 68, 0, 0 >>

\* a + b on numbers of Len(a) bytes: the wrapped sum and the carry out
AddBytes(a, b) ==
    LET n == Len(a)
        c[i \in 0..n] == IF i = 0 THEN 0 ELSE (a[i] + b[i] + c[i - 1]) \div 256
    IN [sum |-> [i \in 1..n |-> (a[i] + b[i] + c[i - 1]) % 256],
        carry |-> c[n]]

\* a.wrapping_sub(b) on numbers of Len(a) bytes
WrappingSubBytes(a, b) ==
    LET n == Len(a)
        w[i \in 0..n] ==
            IF i = 0 THEN 0
            ELSE IF a[i] - b[i] - w[i - 1] < 0 THEN 1 ELSE 0
    IN [i \in 1..n |-> (256 + a[i] - b[i] - w[i - 1]) % 256]

\* 0xb as a u64
ElevenU64 == << 11, 0, 0, 0, 0, 0, 0, 0 >>

\* i32::try_from(d as i64).is_ok(): the upper 33 bits of d are all equal
FitsI32(d) ==
    \/ d[4] < 128 /\ \A i \in 5..8 : d[i] = 0
    \/ d[4] >= 128 /\ \A i \in 5..8 : d[i] = 255

\* write_plt_entry(plt_entry, got_address, plt_address), plt_entry 16 bytes long
write_plt_entry(entry, got, plt, checks) ==
    LET copied == PLT_ENTRY_TEMPLATE
        target == AddBytes(plt, ElevenU64)
        d == WrappingSubBytes(got, target.sum)
    IN IF target.carry = 1 /\ checks
       THEN [status |-> "Panic", entry |-> copied]
       ELSE IF ~FitsI32(d)
            THEN [status |-> "Err", entry |-> copied]
            ELSE [status |-> "Ok",
                  entry |-> CopyFromSlice(copied, 7, SubSeq(d, 1, 4))]

(***************************************************************************)
(* Inputs.                                                                 *)
(***************************************************************************)
\* Instruction bytes around a relocation slot, as compilers emit them
Templates ==
    { << >>,
      <<72, 139, 174>>,                 \* 48 8b ae   mov x(%rip),%rbp
      <<76, 43, 5>>,                    \* 4c 2b 05   sub x(%rip),%r8
      <<72, 59, 61>>,                   \* 48 3b 3d   cmp x(%rip),%rdi
      <<255, 21>>,                      \* ff 15      call *x(%rip)
      <<139, 5>>,                       \* 8b 05      mov x(%rip),%eax
      \* data16 lea x@tlsgd(%rip),%rdi ; data16 data16 rex.W call
      <<102, 72, 141, 61, 0, 0, 0, 0, 102, 102, 72, 232>>,
      \* the same after a nop, followed by the call's slot and a ret
      <<144, 102, 72, 141, 61, 0, 0, 0, 0, 102, 102, 72, 232, 252, 255, 255,
        255, 195>>,
      \* lea x(%rip),%rdi ; movabs $y,%rax ; add %rbx,%rax ; call *%rax
      <<72, 141, 61, 0, 0, 0, 0, 72, 184, 0, 0, 0, 0, 0, 0, 0, 0, 72, 1, 216,
        255, 208>>,
      \* lea x@tlsld(%rip),%rdi ; call y
      <<72, 141, 61, 0, 0, 0, 0, 232, 0, 0, 0, 0>> }

Sections ==
    { SubSeq(t, 1, Len(t) - c) : t \in Templates, c \in 0..MaxCut }

Offsets == 0..MaxOffset

\* the addend a relocation comes with: 0, or -4 (kept as an i64)
Addends == { 0, 0 - 4 }

LowWords ==
    { <<0, 0, 0, 0>>, <<11, 0, 0, 0>>, <<0, 16, 0, 0>>, <<32, 64, 0, 0>>,
      <<255, 255, 255, 127>>, <<0, 0, 0, 128>>, <<10, 0, 0, 128>>,
      <<11, 0, 0, 128>>, <<240, 255, 255, 255>>, <<245, 255, 255, 255>>,
      <<255, 255, 255, 255>> }

HighWords ==
    { <<0, 0, 0, 0>>, <<1, 0, 0, 0>>, <<255, 255, 255, 127>>,
      <<255, 255, 255, 255>> }

Addresses == { lo \o hi : lo \in LowWords, hi \in HighWords }

\* the buffer write_plt_entry is handed: 16 bytes of anything (here 9)
PltBuffer == [i \in 1..16 |-> 9]

(***************************************************************************)
(* The state machine.                                                      *)
(***************************************************************************)
Init ==
    /\ overflow_checks \in BOOLEAN
    /\ pc = "idle"
    /\ relocation_kind = R_X86_64_NONE
    /\ section_bytes = << >>
    /\ offset_in_section = 0
    /\ value_flags = {}
    /\ output_kind = <<"SharedObject">>
    /\ section_flags = {}
    /\ relaxation = None
    /\ applied_kind = "NoOp"
    /\ out = << >>
    /\ offset_out = 0
    /\ addend_in = 0
    /\ addend = 0
    /\ modifier_in = "Normal"
    /\ next_modifier = "Normal"
    /\ apply_status = "none"
    /\ got_address = ElevenU64
    /\ plt_address = ElevenU64
    /\ plt_entry = PltBuffer
    /\ plt_status = "none"

\* the outer writer asks the Decider about one relocation
Decide ==
    /\ pc = "idle"
    /\ \E rk \in RelocationKinds, bytes \in Sections, offset \in Offsets,
          vf \in SUBSET ValueFlags, ok \in OutputKinds, sf \in SectionFlagSets :
          LET r == Relaxation_new(rk, bytes, offset, vf, ok, sf, overflow_checks)
          IN /\ relocation_kind' = rk
             /\ section_bytes' = bytes
             /\ offset_in_section' = offset
             /\ value_flags' = vf
             /\ output_kind' = ok
             /\ section_flags' = sf
             /\ relaxation' = r
             /\ out' = bytes
             /\ offset_out' = offset
             /\ pc' = IF r.tag = "Panic" THEN "aborted" ELSE "decided"
    /\ UNCHANGED << applied_kind, addend_in, addend, modifier_in, next_modifier,
                    apply_status >>
    /\ UNCHANGED << overflow_checks, pltVars >>

\* the effect of one call of apply on the Rewriter's cells
Applied(kind, bytes, offset, a, m) ==
    LET r == RelaxationKind_apply(kind, bytes, offset, a, m)
    IN /\ applied_kind' = kind
       /\ addend_in' = a
       /\ modifier_in' = m
       /\ out' = r.bytes
       /\ offset_out' = r.offset
       /\ addend' = r.addend
       /\ next_modifier' = r.next_modifier
       /\ apply_status' = r.status
       /\ pc' = IF r.status = "panic" THEN "aborted" ELSE "applied"

\* Relaxation::apply: the Rewriter runs on the relaxation the Decider returned,
\* on the same bytes and offset
Apply ==
    /\ pc = "decided"
    /\ relaxation.tag = "Some"
    /\ \E a \in Addends :
          Applied(relaxation.kind, section_bytes, offset_in_section, a, "Normal")
    /\ UNCHANGED deciderVars
    /\ UNCHANGED << overflow_checks, pltVars >>

\* RelaxationKind::apply is public: a call with any kind on any section
ApplyAny ==
    /\ pc = "idle"
    /\ \E kind \in RelaxationKinds, bytes \in Sections, offset \in Offsets,
          a \in Addends, m \in RelocationModifiers :
          /\ section_bytes' = bytes
          /\ offset_in_section' = offset
          /\ Applied(kind, bytes, offset, a, m)
    /\ UNCHANGED << relocation_kind, value_flags, output_kind, section_flags,
                    relaxation >>
    /\ UNCHANGED << overflow_checks, pltVars >>

\* the outer writer goes on to the next relocation
NextRelocation ==
    /\ pc \in {"decided", "applied"}
    /\ pc = "decided" => relaxation.tag = "None"
    /\ pc' = "idle"
    /\ relocation_kind' = R_X86_64_NONE
    /\ section_bytes' = << >>
    /\ offset_in_section' = 0
    /\ value_flags' = {}
    /\ output_kind' = <<"SharedObject">>
    /\ section_flags' = {}
    /\ relaxation' = None
    /\ applied_kind' = "NoOp"
    /\ out' = << >>
    /\ offset_out' = 0
    /\ addend_in' = 0
    /\ addend' = 0
    /\ modifier_in' = "Normal"
    /\ next_modifier' = "Normal"
    /\ apply_status' = "none"
    /\ UNCHANGED << overflow_checks, pltVars >>

\* one PLT stub is written
WritePlt ==
    /\ pc = "idle"
    /\ \E got \in Addresses, plt \in Addresses :
          LET r == write_plt_entry(PltBuffer, got, plt, overflow_checks)
          IN /\ got_address' = got
             /\ plt_address' = plt
             /\ plt_entry' = r.entry
             /\ plt_status' = r.status
             /\ pc' = IF r.status = "Panic" THEN "aborted" ELSE "plt_done"
    /\ UNCHANGED << overflow_checks, deciderVars, rewriterVars >>

\* the writer goes on to the next PLT entry
NextPltEntry ==
    /\ pc = "plt_done"
    /\ pc' = "idle"
    /\ got_address' = ElevenU64
    /\ plt_address' = ElevenU64
    /\ plt_entry' = PltBuffer
    /\ plt_status' = "none"
    /\ UNCHANGED << overflow_checks, deciderVars, rewriterVars >>

\* Decider and Rewriter as the outer writer drives them
Next == Decide \/ Apply \/ NextRelocation

Spec == Init /\ [][Next]_vars

\* the Rewriter alone, called with any kind
NextRewriter == ApplyAny \/ NextRelocation

SpecRewriter == Init /\ [][NextRewriter]_vars

\* the PLT emitter
NextPlt == WritePlt \/ NextPltEntry

SpecPlt == Init /\ [][NextPlt]_vars

(***************************************************************************)
(* Properties of the Decider and the Rewriter.                             *)
(***************************************************************************)
\* Relaxation::new has been called on the inputs the state holds
Asked == pc # "idle"

\* Relaxation::new returned (it did not panic)
Returned == Asked /\ relaxation.tag # "Panic"

IfuncRedirect == create("NoOp", R_X86_64_PLT32)

\* C1 as stated: for a relocatable output the Decider returns None, except
\* (NoOp, R_X86_64_PLT32) for R_X86_64_PC32 to an IFUNC.  Refuted: ABSOLUTE
\* without DYNAMIC, CAN_BYPASS_GOT, and TLSGD/TLSLD of a relocatable
\* executable all relax.
C1_RelocatableNeverRelaxes ==
    (Returned /\ is_relocatable(output_kind)) =>
        IF "IFUNC" \in value_flags /\ relocation_kind = R_X86_64_PC32
        THEN relaxation = IfuncRedirect
        ELSE relaxation = None

\* C1 amended: for a relocatable output, an IFUNC gets (NoOp, R_X86_64_PLT32)
\* for R_X86_64_PC32 and None otherwise; without IFUNC no relaxation is
\* returned unless the value is absolute (ABSOLUTE without DYNAMIC), or
\* CAN_BYPASS_GOT is set, or the relocation is TLSGD/TLSLD of an executable
\* output.  ADDRESS alone never relaxes.
C1_RelocatableRelaxesOnlyWithoutAddress ==
    (Asked /\ is_relocatable(output_kind)) =>
        IF "IFUNC" \in value_flags
        THEN relaxation =
                 (IF relocation_kind = R_X86_64_PC32 THEN IfuncRedirect ELSE None)
        ELSE (/\ ~is_absolute(value_flags)
              /\ ~can_bypass_got(value_flags)
              /\ ~(/\ relocation_kind \in {R_X86_64_TLSGD, R_X86_64_TLSLD}
                   /\ is_executable(output_kind)))
             => relaxation.tag # "Some"

\* C1 witness: a REX mov of a known address in an executable section of a
\* static-PIE output is left alone
C1_Witness ==
    /\ pc = "decided"
    /\ is_relocatable(output_kind)
    /\ is_executable(output_kind)
    /\ value_flags = {"ADDRESS"}
    /\ relocation_kind = R_X86_64_REX_GOTPCRELX
    /\ section_bytes = <<72, 139, 174>>
    /\ offset_in_section = 3
    /\ "EXECINSTR" \in section_flags
    /\ relaxation = None

\* C2: with IFUNC in the value flags the Decider returns (NoOp, R_X86_64_PLT32)
\* for R_X86_64_PC32 and None for every other kind, whatever the other inputs,
\* and applying the NoOp changes neither the bytes nor the other cells.
C2_IfuncOutermostGuard ==
    (Asked /\ "IFUNC" \in value_flags) =>
        /\ relaxation =
               (IF relocation_kind = R_X86_64_PC32 THEN IfuncRedirect ELSE None)
        /\ pc # "aborted"
        /\ pc = "applied" =>
              /\ applied_kind = "NoOp"
              /\ apply_status = "ok"
              /\ out = section_bytes
              /\ offset_out = offset_in_section
              /\ addend = addend_in
              /\ next_modifier = modifier_in

\* C2 witness (S5): PC32 to an IFUNC that could bypass the GOT, in a section
\* that is not executable, redirected and applied
C2_Witness ==
    /\ pc = "applied"
    /\ relocation_kind = R_X86_64_PC32
    /\ {"IFUNC", "CAN_BYPASS_GOT", "ADDRESS"} \subseteq value_flags
    /\ "EXECINSTR" \notin section_flags
    /\ section_bytes = <<255, 21>>
    /\ relaxation = IfuncRedirect
    /\ out = section_bytes

\* C3 as stated: without EXECINSTR the Decider returns None for every set of
\* value flags.  Refuted by PC32 to an IFUNC.
C3_NonExecNeverRelaxes ==
    (Asked /\ "EXECINSTR" \notin section_flags) => relaxation = None

\* C3 amended: without EXECINSTR, and IFUNC not in the value flags, the
\* Decider returns None.
C3_NonExecNonIfuncNeverRelaxes ==
    (Asked /\ "EXECINSTR" \notin section_flags /\ "IFUNC" \notin value_flags)
        => relaxation = None

\* C3 witness: a REX mov of an absolute value that could bypass the GOT is
\* left alone in a section that is not executable
C3_Witness ==
    /\ pc = "decided"
    /\ "EXECINSTR" \notin section_flags
    /\ value_flags = {"CAN_BYPASS_GOT", "ABSOLUTE"}
    /\ relocation_kind = R_X86_64_REX_GOTPCRELX
    /\ section_bytes = <<72, 139, 174>>
    /\ offset_in_section = 3
    /\ ~is_relocatable(output_kind)
    /\ relaxation = None

\* what apply adds to offset_in_section, by kind
OffsetAdvance(kind) ==
    CASE kind \in {"TlsGdToLocalExec", "TlsGdToInitialExec"} -> {8}
      [] kind = "TlsGdToLocalExecLarge" -> {9}
      [] kind = "TlsLdToLocalExec" -> {5, 15}
      [] OTHER -> {0}

\* C4: whenever a completed apply leaves offset_in_section changed,
\* next_modifier is SkipNextRelocation; the change is +8, +9, +8, +15 or +5
\* for the TLS kinds and nothing for the others.
C4_PairedRelocationAtomicity ==
    pc = "applied" =>
        /\ offset_out # offset_in_section => next_modifier = "SkipNextRelocation"
        /\ offset_out - offset_in_section \in OffsetAdvance(applied_kind)
        /\ applied_kind \in {"TlsGdToLocalExec", "TlsGdToInitialExec",
                             "TlsGdToLocalExecLarge", "TlsLdToLocalExec"}
              => offset_out # offset_in_section

\* C4 witness: the short form of TlsLdToLocalExec moved the offset by 5 and
\* raised the modifier from Normal
C4_Witness ==
    /\ pc = "applied"
    /\ applied_kind = "TlsLdToLocalExec"
    /\ modifier_in = "Normal"
    /\ offset_out = offset_in_section + 5
    /\ next_modifier = "SkipNextRelocation"

\* C5 (S1) as stated: R_X86_64_REX_GOTPCRELX at offset 3 of 48 8b ae, value
\* flags {ADDRESS}, a static executable, an executable section: the Decider
\* returns a relaxation and applying it leaves 48 8d ae.  Refuted: the
\* Decider returns None (static-PIE) or RexMovIndirectToAbsolute, which
\* leaves 48 c7 c5.
C5_S1_MovToLea ==
    (/\ Asked
     /\ relocation_kind = R_X86_64_REX_GOTPCRELX
     /\ section_bytes = <<72, 139, 174>>
     /\ offset_in_section = 3
     /\ value_flags = {"ADDRESS"}
     /\ output_kind[1] = "StaticExecutable"
     /\ "EXECINSTR" \in section_flags)
    => /\ relaxation.tag = "Some"
       /\ pc = "applied" => out = <<72, 141, 174>>

\* C6 as stated: the Decider never fails; on every section and offset it
\* returns None or a relaxation.  Refuted: section_bytes[offset - 2] is
\* indexed unchecked, and `offset - k` overflows.
C6_DeciderNeverFails ==
    Asked => relaxation.tag \in {"None", "Some"}

\* the twelve bytes TlsGdToLocalExec writes
TlsGdLocalExecBytes == <<100, 72, 139, 4, 37, 0, 0, 0, 0, 72, 141, 128>>

\* the regular TLSGD form lies around offset_in_section
RegularTlsGdAtOffset ==
    /\ offset_in_section >= 4
    /\ GetRange(section_bytes, offset_in_section - 4, offset_in_section)
           = <<102, 72, 141, 61>>
    /\ GetRange(section_bytes, offset_in_section + 4, offset_in_section + 8)
           = <<102, 102, 72, 232>>

\* C7 (S4): R_X86_64_TLSGD in an executable section of an executable output,
\* CAN_BYPASS_GOT set, IFUNC absent, the regular form around the offset: the
\* Decider returns (TlsGdToLocalExec, R_X86_64_TPOFF32); apply completes,
\* writes the twelve bytes from offset-4, leaves every other byte, adds 8 to
\* the offset, zeroes the addend and sets SkipNextRelocation.
C7_TlsGdToLocalExec ==
    (/\ Asked
     /\ relocation_kind = R_X86_64_TLSGD
     /\ "EXECINSTR" \in section_flags
     /\ is_executable(output_kind)
     /\ "CAN_BYPASS_GOT" \in value_flags
     /\ "IFUNC" \notin value_flags
     /\ RegularTlsGdAtOffset)
    => /\ relaxation = create("TlsGdToLocalExec", R_X86_64_TPOFF32)
       /\ pc \in {"decided", "applied"}
       /\ pc = "applied" =>
             /\ Len(out) = Len(section_bytes)
             /\ \A i \in 1..Len(out) :
                   out[i] = IF /\ i > offset_in_section - 4
                               /\ i <= offset_in_section + 8
                            THEN TlsGdLocalExecBytes[i - (offset_in_section - 4)]
                            ELSE section_bytes[i]
             /\ offset_out = offset_in_section + 8
             /\ addend = 0
             /\ next_modifier = "SkipNextRelocation"

\* C7 witness: the form after a nop and before the call's slot and a ret,
\* relaxed and rewritten, the addend having been -4
C7_Witness ==
    /\ pc = "applied"
    /\ relocation_kind = R_X86_64_TLSGD
    /\ applied_kind = "TlsGdToLocalExec"
    /\ offset_in_section = 5
    /\ Len(section_bytes) = 18
    /\ addend_in = 0 - 4
    /\ addend = 0
    /\ {"CAN_BYPASS_GOT", "ABSOLUTE"} \subseteq value_flags
    /\ is_relocatable(output_kind)
    /\ out = <<144>> \o TlsGdLocalExecBytes \o <<252, 255, 255, 255, 195>>

\* C10 as stated: apply, called with the relaxation the Decider returned on
\* the same bytes and offset, stays inside the section.  Refuted: the Decider
\* looks at fewer bytes than the Rewriter writes.
C10_ApplyStaysInBounds ==
    relaxation.tag = "Some" => apply_status # "panic"

\* the Decider chose one of the three REX rewrites
RexKinds ==
    { "RexMovIndirectToAbsolute", "RexSubIndirectToAbsolute",
      "RexCmpIndirectToAbsolute" }

RexDecided == relaxation.tag = "Some" /\ relaxation.kind \in RexKinds

\* The instruction at offset-3..offset has been rewritten as C11 says: REX.R
\* moved to REX.B (0x48 stays, 0x4c becomes 0x49), the opcode and ModR/M of
\* the kind, the register number kept, the addend zeroed, nothing else
\* touched.
RexRewritten ==
    LET o == offset_in_section
        rex == section_bytes[o - 2]
        old == section_bytes[o]
        kind == relaxation.kind
        regBefore == 8 * ((rex \div 4) % 2) + ((old \div 8) % 8)
        regAfter == 8 * (out[o - 2] % 2) + (out[o] % 8)
    IN /\ o >= 3 /\ Len(section_bytes) >= o /\ Len(out) = Len(section_bytes)
       /\ rex \in {72, 76}
       /\ out[o - 2] = (IF rex = 76 THEN 73 ELSE 72)
       /\ out[o - 1] = (IF kind = "RexMovIndirectToAbsolute" THEN 199 ELSE 129)
       /\ out[o] = ((old \div 8) % 8)
                     + (CASE kind = "RexMovIndirectToAbsolute" -> 192
                          [] kind = "RexSubIndirectToAbsolute" -> 232
                          [] kind = "RexCmpIndirectToAbsolute" -> 248)
       /\ regAfter = regBefore
       /\ \A i \in 1..Len(out) : i \notin (o - 2)..o => out[i] = section_bytes[i]
       /\ addend = 0
       /\ offset_out = offset_in_section
       /\ next_modifier = modifier_in

\* C11 as stated: on every input for which the Decider returns one of the
\* three REX kinds, apply rewrites the instruction (RexRewritten).  Refuted
\* where the ModR/M byte at offset-1 lies past the end of the section: apply
\* panics after rewriting the REX byte and the opcode.
C11_RexRewritePreservesRegister ==
    (RexDecided /\ pc # "decided") => (pc = "applied" /\ RexRewritten)

\* Whenever apply completes on such an input, the rewrite is as C11 says.
RexRewriteWhenApplied ==
    (RexDecided /\ pc = "applied") => RexRewritten

\* S2, and the REX.R case: 4c 2b 05 becomes 49 81 e8
RexRewriteReached ==
    /\ pc = "applied"
    /\ relaxation.kind = "RexSubIndirectToAbsolute"
    /\ section_bytes = <<76, 43, 5>>
    /\ out = <<73, 129, 232>>
    /\ addend_in = 0 - 4

(***************************************************************************)
(* Properties of the PLT emitter.                                          *)
(***************************************************************************)
\* a >= b for numbers of Len(a) bytes
GeqBytes(a, b) ==
    LET n == Len(a)
        g[i \in 0..n] ==
            IF i = 0 THEN TRUE
            ELSE IF a[i] > b[i] THEN TRUE
            ELSE IF a[i] < b[i] THEN FALSE
            ELSE g[i - 1]
    IN g[n]

\* got_address and plt_address + 0xb as integers, in nine bytes: no wrap
Got9 == got_address \o <<0>>
Target9 == AddBytes(plt_address \o <<0>>, ElevenU64 \o <<0>>).sum

\* |got_address - (plt_address + 0xb)|, in nine bytes
PltDistance ==
    IF GeqBytes(Got9, Target9) THEN WrappingSubBytes(Got9, Target9)
    ELSE WrappingSubBytes(Target9, Got9)

\* |got_address - (plt_address + 0xb)| < 2^31
PltDistanceBelow2G ==
    PltDistance[4] < 128 /\ \A i \in 5..9 : PltDistance[i] = 0

\* got_address - (plt_address + 0xb) is in -2^31 .. 2^31 - 1
DisplacementFitsI32 ==
    \/ PltDistanceBelow2G
    \/ ~GeqBytes(Got9, Target9) /\ PltDistance = <<0, 0, 0, 128, 0, 0, 0, 0, 0>>

\* plt_entry[7..11] read as a little-endian i32, in nine bytes
StoredDisplacement9 ==
    LET w == SubSeq(plt_entry, 8, 11)
    IN w \o (IF w[4] >= 128 THEN <<255, 255, 255, 255, 255>>
             ELSE <<0, 0, 0, 0, 0>>)

\* write_plt_entry has been called on the addresses the state holds
PltAsked == pc # "idle"

\* plt_address + 0xb does not exceed u64::MAX
PltTargetInU64 == Target9[9] = 0

PltWritten ==
    /\ plt_status = "Ok"
    /\ \A i \in (1..16) \ (8..11) : plt_entry[i] = PLT_ENTRY_TEMPLATE[i]
    /\ AddBytes(Target9, StoredDisplacement9).sum = Got9

\* C8 as stated: whenever |got - (plt + 0xb)| < 2^31, write_plt_entry
\* succeeds, the entry is the template outside bytes 7..11, and bytes 7..11
\* read as an i32 plus plt + 0xb are got.  Refuted where plt + 0xb overflows
\* u64 in a build that checks overflow.
C8_PltRoundTrip ==
    (PltAsked /\ PltDistanceBelow2G) => PltWritten

\* C9 as stated: whenever got - (plt + 0xb) does not fit an i32,
\* write_plt_entry returns the error.  Refuted: the wrapped difference of
\* addresses 2^64 - 5 apart is 5, and the entry is written.
C9_PltTooFar ==
    (PltAsked /\ ~DisplacementFitsI32) => plt_status = "Err"

\* Where plt + 0xb stays in u64, the round trip of C8 holds.
PltRoundTripInU64 ==
    (PltAsked /\ PltTargetInU64 /\ PltDistanceBelow2G) => PltWritten

\* The entry is written exactly when the wrapped 64-bit difference fits an
\* i32, unless the addition panicked.
PltErrIffWrappedTooFar ==
    PltAsked =>
        LET d == WrappingSubBytes(got_address,
                                  AddBytes(plt_address, ElevenU64).sum)
        IN plt_status \in {IF FitsI32(d) THEN "Ok" ELSE "Err", "Panic"}

====
